---- MODULE Spec2Model ----
(***************************************************************************)
(* OptiMol: the embedding / scoring script optim/theano_bo/generate_init.py *)
(* and the helpers setup, soft_mkdir and log_smiles_from_indices of        *)
(* utils.py, as state machines.                                            *)
(*                                                                         *)
(*   SpecPipeline  one run of generate_init.py, statement block by block   *)
(*   SpecSetup     calls of utils.setup on a directory tree                *)
(*   SpecLog       calls of utils.log_smiles_from_indices                  *)
(*                                                                         *)
(* Floating point numbers are fixed-point integers with Scale units per 1, *)
(* tagged so that numpy's nan and +-inf (the results of x / 0) exist.      *)
(***************************************************************************)
EXTENDS Integers, Sequences, FiniteSets, TLC

VARIABLES
  \* ---- generate_init.py ----
  pc,            \* position of the script
  args,          \* parsed command line: obj, cutoff
  csv,           \* data rows of the input file: the smiles column, in file
                 \* order (the index column numbers the rows 0, 1, 2, ...)
  clf_file,      \* TRUE iff results/qsar_svm.pickle exists
  smiles_df,     \* rows loaded by pd.read_csv
  z,             \* latent matrix returned by model.embed
  files,         \* the output directory: file name -> [written, data]
  lists,         \* the score lists filled by the loops
  fps,           \* fingerprints collected by the qsar loop
  normalized,    \* the normalised score vectors of the run, by name
  targets,       \* composite objective
  i,             \* loop counter
  error,         \* exception that ended the run, or "none"
  null_scored,   \* scorers that were invoked on None so far
  \* ---- utils.setup ----
  fs,            \* set of existing directories
  fs_before,     \* fs when the last call of setup started
  setup_call,    \* the last call of setup: arguments and outcome
  \* ---- utils.log_smiles_from_indices ----
  log_in,        \* arguments of the call
  log_out        \* what the call returned

pipe_vars == <<pc, args, csv, clf_file, smiles_df, z, files, lists, fps,
               normalized, targets, i, error, null_scored>>
setup_vars == <<fs, fs_before, setup_call>>
log_vars == <<log_in, log_out>>
vars == <<pipe_vars, setup_vars, log_vars>>

\* ------------------------------------------------------------------ bounds
MaxRows == 3      \* data rows of the input file
Scale == 1000     \* fixed-point units per 1.0
Tol == 20         \* tolerance of "approximately", in fixed-point units

\* ------------------------------------------------------------ numbers
Fin(v) == [kind |-> "fin", v |-> v]
NaN == [kind |-> "nan", v |-> 0]
Inf(sign) == [kind |-> "inf", v |-> sign]

Abs(x) == IF x < 0 THEN -x ELSE x
Sgn(x) == IF x < 0 THEN -1 ELSE 1
Min(a, b) == IF a < b THEN a ELSE b

RECURSIVE Bisect(_, _, _)
\* the r with r * r <= n < (r + 1) * (r + 1), given lo * lo <= n < hi * hi
Bisect(n, lo, hi) ==
  IF hi - lo <= 1 THEN lo
  ELSE LET mid == (lo + hi) \div 2
       IN IF mid * mid <= n THEN Bisect(n, mid, hi) ELSE Bisect(n, lo, mid)

\* np.sqrt, rounded down to a fixed-point unit
\* (46341 * 46341 is the first square beyond the 32-bit integers)
ISqrt(n) == Bisect(n, 0, Min(n + 1, 46341))

\* IEEE addition, subtraction and division on tagged numbers
FAdd(a, b) ==
  IF a.kind = "nan" \/ b.kind = "nan" THEN NaN
  ELSE IF a.kind = "inf" /\ b.kind = "inf"
       THEN (IF a.v = b.v THEN a ELSE NaN)
  ELSE IF a.kind = "inf" THEN a
  ELSE IF b.kind = "inf" THEN b
  ELSE Fin(a.v + b.v)

FNeg(a) == IF a.kind = "nan" THEN NaN ELSE [kind |-> a.kind, v |-> -a.v]

FSub(a, b) == FAdd(a, FNeg(b))

\* round-to-nearest quotient of integers, d > 0
RoundDiv(n, d) == IF n >= 0 THEN (2 * n + d) \div (2 * d)
                  ELSE -((2 * (-n) + d) \div (2 * d))

FDiv(a, b) ==
  IF a.kind = "nan" \/ b.kind = "nan" THEN NaN
  ELSE IF a.kind = "inf" /\ b.kind = "inf" THEN NaN
  ELSE IF a.kind = "inf" THEN Inf(a.v * Sgn(b.v))
  ELSE IF b.kind = "inf" THEN Fin(0)
  ELSE IF b.v = 0 THEN (IF a.v = 0 THEN NaN ELSE Inf(Sgn(a.v)))
  ELSE Fin(RoundDiv(a.v * Scale * Sgn(b.v), Abs(b.v)))

RECURSIVE FSum(_)
FSum(xs) == IF xs = <<>> THEN Fin(0) ELSE FAdd(Head(xs), FSum(Tail(xs)))

\* np.array(list): the list as a vector of floats
np_array(xs) == [k \in 1..Len(xs) |-> Fin(xs[k])]

\* np.mean of a vector; the mean of an empty vector is nan
np_mean(xs) == IF Len(xs) = 0 THEN NaN
               ELSE LET s == FSum(xs)
                    IN IF s.kind = "fin" THEN Fin(RoundDiv(s.v, Len(xs))) ELSE NaN

\* np.std of a vector: population standard deviation (ddof = 0)
np_std(xs) ==
  LET m == np_mean(xs)
      sq == [k \in 1..Len(xs) |->
               LET d == FSub(xs[k], m)
               IN IF d.kind = "fin" THEN Fin(d.v * d.v)
                  ELSE IF d.kind = "inf" THEN Inf(1) ELSE NaN]
      s == FSum(sq)
  IN IF Len(xs) = 0 \/ m.kind # "fin" THEN NaN
     ELSE IF s.kind = "fin" THEN Fin(ISqrt(RoundDiv(s.v, Len(xs)))) ELSE NaN

\* (a - np.mean(a)) / np.std(a) on an array (line 166)
NormalizeArray(a) ==
  LET m == np_mean(a)
      s == np_std(a)
  IN [k \in 1..Len(a) |-> FDiv(FSub(a[k], m), s)]

\* (np.array(x) - np.mean(x)) / np.std(x) on a list (lines 107-109, 138-140)
Normalize(xs) == NormalizeArray(np_array(xs))

\* element-wise sum of vectors of equal length
VecAdd(a, b) == [k \in 1..Len(a) |-> FAdd(a[k], b[k])]

\* ------------------------------------------------- molecules and scorers
\* the SMILES strings of the input files; "C(" does not parse
SmilesSet == {"CCO", "c1ccccc1", "C1CCCCCCC1", "C("}

\* None, what MolFromSmiles returns for a string that does not parse
Null == [none |-> TRUE]

\* rdkit.Chem.MolFromSmiles: the molecule (heavy atoms, largest ring), or None
MolFromSmiles(s) ==
  CASE s = "CCO" -> [heavy |-> 3, ring |-> 0]
    [] s = "c1ccccc1" -> [heavy |-> 6, ring |-> 6]
    [] s = "C1CCCCCCC1" -> [heavy |-> 8, ring |-> 8]
    [] OTHER -> Null

\* a scorer handed None raises, and the exception propagates (nothing catches it)
ScorerRaises(m) == m = Null

\* data_processing.comp_metrics.logP, in fixed-point units
logP(m) ==
  CASE m.heavy = 3 -> -1
    [] m.heavy = 6 -> 1687
    [] OTHER -> 3121

\* data_processing.comp_metrics.qed, in fixed-point units
qed(m) ==
  CASE m.heavy = 3 -> 407
    [] m.heavy = 6 -> 143
    [] OTHER -> 850

\* data_processing.sascorer.calculateScore, in fixed-point units
calculateScore(m) ==
  CASE m.heavy = 3 -> 1980
    [] m.heavy = 6 -> 1000
    [] OTHER -> 3150

\* data_processing.comp_metrics.cycle_score: the excess of the largest ring over 6
cycle_score(m) == IF m.ring <= 6 THEN 0 ELSE (m.ring - 6) * Scale

\* AllChem.GetMorganFingerprintAsBitVect(m, 3, nBits=2048): the set of on bits
GetMorganFingerprintAsBitVect(m) ==
  CASE m.heavy = 3 -> {80, 222, 807, 1057}
    [] m.heavy = 6 -> {389, 1088, 1873}
    [] OTHER -> {2, 926, 1019}

\* clf.predict_proba(fps)[:, 1]: one probability per row of fps
predict_proba(rows) ==
  [k \in 1..Len(rows) |->
     Fin(IF 1088 \in rows[k] THEN 850
         ELSE IF Cardinality(rows[k]) > 3 THEN 120 ELSE 480)]

\* model.embed(dataloader, smiles_df): one latent vector per row of smiles_df
embed(df) ==
  [k \in 1..Len(df) |->
     CASE df[k] = "CCO" -> <<12, -7>>
       [] df[k] = "c1ccccc1" -> <<-3, 40>>
       [] df[k] = "C1CCCCCCC1" -> <<25, 25>>
       [] OTHER -> <<0, 0>>]

\* ------------------------------------------------------------ the script
Objectives == {"logp", "qed", "qsar", "docking", "other"}
Cutoffs == (-1)..(MaxRows + 1)

RECURSIVE SeqsUpTo(_, _)
\* the sequences over S of length at most n
SeqsUpTo(S, n) ==
  IF n = 0 THEN {<<>>}
  ELSE LET shorter == SeqsUpTo(S, n - 1)
       IN shorter \cup {Append(q, x) : q \in {r \in shorter : Len(r) = n - 1}, x \in S}

FileNames == {"latent_features.txt", "targets_logp.txt", "logP_values.txt",
              "SA_scores.txt", "cycle_scores.txt", "targets_qed.txt",
              "qed_values.txt", "targets_qsar.txt"}

NoFile == [written |-> FALSE, data |-> <<>>]

\* np.savetxt(os.path.join(savedir, name), X)
savetxt(fl, name, X) == [fl EXCEPT ![name] = [written |-> TRUE, data |-> X]]

\* read_csv reading one row more than nrows
read_csv_one_more(rows, cutoff) ==
  IF cutoff > 0 THEN SubSeq(rows, 1, Min(cutoff + 1, Len(rows))) ELSE rows

\* pd.read_csv(path, index_col=0, nrows=cutoff) if cutoff > 0, else the whole file
read_csv(rows, cutoff) ==
  IF cutoff > 0 THEN SubSeq(rows, 1, Min(cutoff, Len(rows))) ELSE rows

EmptyLists == [logP_values |-> <<>>, qed_values |-> <<>>, SA_scores |-> <<>>,
               cycle_scores |-> <<>>, proba |-> <<>>]

InitPipeline ==
  /\ pc = "load"
  /\ args \in [obj : Objectives, cutoff : Cutoffs]
  /\ csv \in SeqsUpTo(SmilesSet, MaxRows)
  /\ clf_file \in BOOLEAN
  /\ smiles_df = <<>>
  /\ z = <<>>
  /\ files = [f \in FileNames |-> NoFile]
  /\ lists = EmptyLists
  /\ fps = <<>>
  /\ normalized = <<>>
  /\ targets = <<>>
  /\ i = 0
  /\ error = "none"
  /\ null_scored = {}

\* lines 60-65
Load ==
  /\ pc = "load"
  /\ smiles_df' = read_csv(csv, args.cutoff)
  /\ pc' = "embed"
  /\ UNCHANGED <<setup_vars, log_vars, args, csv, clf_file, z, files, lists,
                 fps, normalized, targets, i, error, null_scored>>

\* lines 77-79
Embed ==
  /\ pc = "embed"
  /\ z' = embed(smiles_df)
  /\ pc' = "persist"
  /\ UNCHANGED <<setup_vars, log_vars, args, csv, clf_file, smiles_df, files,
                 lists, fps, normalized, targets, i, error, null_scored>>

\* lines 81-84
PersistEmbeddings ==
  /\ pc = "persist"
  /\ files' = savetxt(files, "latent_features.txt", z)
  /\ pc' = "branch"
  /\ UNCHANGED <<setup_vars, log_vars, args, csv, clf_file, smiles_df, z,
                 lists, fps, normalized, targets, i, error, null_scored>>

\* the loop body with the main score inserted at the front of its list
ScoreStep_prepend(ls, main, value, m) ==
  [ls EXCEPT ![main] = <<value>> \o ls[main],
             !.SA_scores = Append(ls.SA_scores, -calculateScore(m)),
             !.cycle_scores = Append(ls.cycle_scores, -cycle_score(m))]

\* the three outputs of one pass of the logp / qed loop body for molecule m
\* (lines 100-102 and 131-133): SA and cycle scores are negated
ScoreStep(ls, main, value, m) ==
  [ls EXCEPT ![main] = Append(ls[main], value),
             !.SA_scores = Append(ls.SA_scores, -calculateScore(m)),
             !.cycle_scores = Append(ls.cycle_scores, -cycle_score(m))]

\* lines 107-111 and 138-142: the normalised vectors of a three-score mode
NormalizeAll(ls, main) ==
  [n \in {"SA_scores", main, "cycle_scores"} |-> Normalize(ls[n])]

\* lines 111 and 142: targets = SA + main + cycle, all normalised
Composite(nz, main) ==
  VecAdd(VecAdd(nz["SA_scores"], nz[main]), nz["cycle_scores"])

\* the logp outputs without the cycle score file
SaveLogp_no_cycle(fl, tg, ls) ==
  savetxt(savetxt(savetxt(fl,
    "targets_logp.txt", tg),
    "logP_values.txt", np_array(ls.logP_values)),
    "SA_scores.txt", np_array(ls.SA_scores))

\* lines 114-117: the four files of the logp mode
SaveLogp(fl, tg, ls) ==
  savetxt(savetxt(savetxt(savetxt(fl,
    "targets_logp.txt", tg),
    "logP_values.txt", np_array(ls.logP_values)),
    "SA_scores.txt", np_array(ls.SA_scores)),
    "cycle_scores.txt", np_array(ls.cycle_scores))

\* lines 145-148: the four files of the qed mode
SaveQed(fl, tg, ls) ==
  savetxt(savetxt(savetxt(savetxt(fl,
    "targets_qed.txt", tg),
    "qed_values.txt", np_array(ls.qed_values)),
    "SA_scores.txt", np_array(ls.SA_scores)),
    "cycle_scores.txt", np_array(ls.cycle_scores))

\* line 169: the one file of the qsar mode
SaveQsar(fl, tg) == savetxt(fl, "targets_qsar.txt", tg)

\* the run ends with exception e
Fail(e) ==
  /\ error' = e
  /\ pc' = "failed"

\* lines 89-95: obj == 'logp', the lists start empty
LogpStart ==
  /\ pc = "branch"
  /\ args.obj = "logp"
  /\ lists' = EmptyLists
  /\ i' = 0
  /\ pc' = "logp_loop"
  /\ UNCHANGED <<setup_vars, log_vars, args, csv, clf_file, smiles_df, z,
                 files, fps, normalized, targets, error, null_scored>>

\* lines 97-105: one pass of the loop; logP is the first scorer called
LogpIter ==
  /\ pc = "logp_loop"
  /\ i < Len(smiles_df)
  /\ LET m == MolFromSmiles(smiles_df[i + 1])
     IN IF ScorerRaises(m)
        THEN /\ null_scored' = null_scored \cup {"logP"}
             /\ Fail("ArgumentError")
             /\ UNCHANGED <<lists, i>>
        ELSE /\ lists' = ScoreStep(lists, "logP_values", logP(m), m)
             /\ i' = i + 1
             /\ UNCHANGED <<pc, error, null_scored>>
  /\ UNCHANGED <<setup_vars, log_vars, args, csv, clf_file, smiles_df, z,
                 files, fps, normalized, targets>>

\* lines 107-118
LogpSave ==
  /\ pc = "logp_loop"
  /\ i = Len(smiles_df)
  /\ normalized' = NormalizeAll(lists, "logP_values")
  /\ targets' = Composite(normalized', "logP_values")
  /\ files' = SaveLogp(files, targets', lists)
  /\ pc' = "done"
  /\ UNCHANGED <<setup_vars, log_vars, args, csv, clf_file, smiles_df, z,
                 lists, fps, i, error, null_scored>>

\* lines 120-126: obj == 'qed'
QedStart ==
  /\ pc = "branch"
  /\ args.obj = "qed"
  /\ lists' = EmptyLists
  /\ i' = 0
  /\ pc' = "qed_loop"
  /\ UNCHANGED <<setup_vars, log_vars, args, csv, clf_file, smiles_df, z,
                 files, fps, normalized, targets, error, null_scored>>

\* lines 128-136: one pass of the loop; qed is the first scorer called
QedIter ==
  /\ pc = "qed_loop"
  /\ i < Len(smiles_df)
  /\ LET m == MolFromSmiles(smiles_df[i + 1])
     IN IF ScorerRaises(m)
        THEN /\ null_scored' = null_scored \cup {"qed"}
             /\ Fail("ArgumentError")
             /\ UNCHANGED <<lists, i>>
        ELSE /\ lists' = ScoreStep(lists, "qed_values", qed(m), m)
             /\ i' = i + 1
             /\ UNCHANGED <<pc, error, null_scored>>
  /\ UNCHANGED <<setup_vars, log_vars, args, csv, clf_file, smiles_df, z,
                 files, fps, normalized, targets>>

\* lines 138-149
QedSave ==
  /\ pc = "qed_loop"
  /\ i = Len(smiles_df)
  /\ normalized' = NormalizeAll(lists, "qed_values")
  /\ targets' = Composite(normalized', "qed_values")
  /\ files' = SaveQed(files, targets', lists)
  /\ pc' = "done"
  /\ UNCHANGED <<setup_vars, log_vars, args, csv, clf_file, smiles_df, z,
                 lists, fps, i, error, null_scored>>

\* lines 151-159: obj == 'qsar'; open() raises if the pickle is missing
QsarLoadClf ==
  /\ pc = "branch"
  /\ args.obj = "qsar"
  /\ IF clf_file
     THEN /\ fps' = <<>>
          /\ i' = 0
          /\ pc' = "qsar_loop"
          /\ UNCHANGED error
     ELSE /\ Fail("FileNotFoundError")
          /\ UNCHANGED <<fps, i>>
  /\ UNCHANGED <<setup_vars, log_vars, args, csv, clf_file, smiles_df, z,
                 files, lists, normalized, targets, null_scored>>

\* lines 160-162: one pass of the fingerprint loop
QsarIter ==
  /\ pc = "qsar_loop"
  /\ i < Len(smiles_df)
  /\ LET m == MolFromSmiles(smiles_df[i + 1])
     IN IF ScorerRaises(m)
        THEN /\ null_scored' = null_scored \cup {"GetMorganFingerprintAsBitVect"}
             /\ Fail("ArgumentError")
             /\ UNCHANGED <<fps, i>>
        ELSE /\ fps' = Append(fps, GetMorganFingerprintAsBitVect(m))
             /\ i' = i + 1
             /\ UNCHANGED <<pc, error, null_scored>>
  /\ UNCHANGED <<setup_vars, log_vars, args, csv, clf_file, smiles_df, z,
                 files, lists, normalized, targets>>

\* lines 163-171: np.vstack of an empty list raises ValueError
QsarSave ==
  /\ pc = "qsar_loop"
  /\ i = Len(smiles_df)
  /\ IF fps = <<>>
     THEN /\ Fail("ValueError")
          /\ UNCHANGED <<lists, normalized, targets, files>>
     ELSE /\ lists' = [lists EXCEPT !.proba = predict_proba(fps)]
          /\ normalized' = [n \in {"proba"} |-> NormalizeArray(lists'.proba)]
          /\ targets' = normalized'["proba"]
          /\ files' = SaveQsar(files, targets')
          /\ pc' = "done"
          /\ UNCHANGED error
  /\ UNCHANGED <<setup_vars, log_vars, args, csv, clf_file, smiles_df, z,
                 fps, i, null_scored>>

\* lines 173-177: obj == 'docking'
Docking ==
  /\ pc = "branch"
  /\ args.obj = "docking"
  /\ Fail("NotImplementedError")
  /\ UNCHANGED <<setup_vars, log_vars, args, csv, clf_file, smiles_df, z,
                 files, lists, fps, normalized, targets, i, null_scored>>

\* lines 89-177: no branch of the if / elif chain matches, and there is no else
NoBranch ==
  /\ pc = "branch"
  /\ args.obj \notin {"logp", "qed", "qsar", "docking"}
  /\ pc' = "done"
  /\ UNCHANGED <<setup_vars, log_vars, args, csv, clf_file, smiles_df, z,
                 files, lists, fps, normalized, targets, i, error,
                 null_scored>>

NextPipeline ==
  \/ Load \/ Embed \/ PersistEmbeddings
  \/ LogpStart \/ LogpIter \/ LogpSave
  \/ QedStart \/ QedIter \/ QedSave
  \/ QsarLoadClf \/ QsarIter \/ QsarSave
  \/ Docking \/ NoBranch

\* ------------------------------------------------------------ utils.setup
Names == {"toto", "tata"}
NoName == "<None>"                 \* name=None

\* os.path.join(script_dir, a, b), relative to script_dir
Join(a, b) == a \o "/" \o b

Root == "results"
LogsDir == "results/logs"
ModelsDir == "results/saved_models"
AllDirs == {Root, LogsDir, ModelsDir}
             \cup {Join(LogsDir, n) : n \in Names}
             \cup {Join(ModelsDir, n) : n \in Names}

\* the directory trees: a directory exists only inside an existing one
Trees ==
  {t \in SUBSET AllDirs :
     /\ (LogsDir \in t \/ ModelsDir \in t) => Root \in t
     /\ \A n \in Names : /\ Join(LogsDir, n) \in t => LogsDir \in t
                         /\ Join(ModelsDir, n) \in t => ModelsDir \in t}

\* a state of a sequence of file system calls: the tree, and the exception
\* that stopped the sequence ("none" while it runs)
Running(t) == [fs |-> t, exc |-> "none"]

\* os.mkdir(path), skipped once an exception is on its way
mkdir(st, path) ==
  IF st.exc # "none" THEN st
  ELSE IF path \in st.fs THEN [st EXCEPT !.exc = "FileExistsError"]
  ELSE [st EXCEPT !.fs = st.fs \cup {path}]

\* utils.soft_mkdir
soft_mkdir(st, path) ==
  IF st.exc # "none" THEN st
  ELSE IF path \notin st.fs THEN mkdir(st, path) ELSE st

\* setup with permissive ignored: soft_mkdir in both branches
setup_always_permissive(t, name, permissive) ==
  LET s3 == soft_mkdir(soft_mkdir(soft_mkdir(Running(t), Root), LogsDir), ModelsDir)
      logdir == Join(LogsDir, name)
      modeldir == Join(ModelsDir, name)
      s5 == IF name = NoName THEN s3
            ELSE soft_mkdir(soft_mkdir(s3, logdir), modeldir)
      exc == IF s5.exc = "none" /\ name = NoName THEN "UnboundLocalError" ELSE s5.exc
  IN [fs |-> s5.fs, exc |-> exc,
      ret |-> IF exc = "none" THEN <<logdir, modeldir>> ELSE <<>>]

\* utils.setup(name, permissive): the tree afterwards, the exception or
\* "none", and the returned pair of paths
setup(t, name, permissive) ==
  LET s3 == soft_mkdir(soft_mkdir(soft_mkdir(Running(t), Root), LogsDir), ModelsDir)
      logdir == Join(LogsDir, name)
      modeldir == Join(ModelsDir, name)
      s5 == IF name = NoName THEN s3
            ELSE IF permissive
                 THEN soft_mkdir(soft_mkdir(s3, logdir), modeldir)
                 ELSE mkdir(mkdir(s3, logdir), modeldir)
      exc == IF s5.exc = "none" /\ name = NoName THEN "UnboundLocalError" ELSE s5.exc
  IN [fs |-> s5.fs, exc |-> exc,
      ret |-> IF exc = "none" THEN <<logdir, modeldir>> ELSE <<>>]

NoCall == [called |-> FALSE, name |-> NoName, permissive |-> TRUE,
           exc |-> "none", ret |-> <<>>]

InitSetupVars ==
  /\ fs \in Trees
  /\ fs_before = fs
  /\ setup_call = NoCall

\* one call of setup
Setup(name, permissive) ==
  LET r == setup(fs, name, permissive)
  IN /\ fs_before' = fs
     /\ fs' = r.fs
     /\ setup_call' = [called |-> TRUE, name |-> name, permissive |-> permissive,
                       exc |-> r.exc, ret |-> r.ret]
     /\ UNCHANGED <<pipe_vars, log_vars>>

NextSetup ==
  \E name \in Names \cup {NoName}, permissive \in BOOLEAN : Setup(name, permissive)

\* ------------------------------------------ utils.log_smiles_from_indices
MaxN == 2         \* rows of the index arrays
SeqLen == 2       \* columns of the index arrays

\* idx_to_char: strings are sequences of characters
idx_to_char == <<<<"C">>, <<"(">>, <<"\n">>>>
Indices == DOMAIN idx_to_char

RECURSIVE Tuples(_, _)
\* the sequences over S of length exactly n
Tuples(S, n) ==
  IF n = 0 THEN {<<>>}
  ELSE {Append(q, x) : q \in Tuples(S, n - 1), x \in S}

\* the index arrays of shape (n, SeqLen)
Arrays(n) == Tuples(Tuples(Indices, SeqLen), n)

RECURSIVE join(_)
\* ''.join([idx_to_char[idx] for idx in row])
join(row) == IF row = <<>> THEN <<>> ELSE idx_to_char[Head(row)] \o join(Tail(row))

RECURSIVE rstrip(_)
\* o.rstrip('\n')
rstrip(str) ==
  IF str # <<>> /\ str[Len(str)] = "\n" THEN rstrip(SubSeq(str, 1, Len(str) - 1))
  ELSE str

\* Chem.MolFromSmiles(str) != None, for strings over the alphabet of idx_to_char
ParsesAsSmiles(str) == \A k \in 1..Len(str) : str[k] = "C"

RECURSIVE CountValid(_)
CountValid(strs) ==
  IF strs = <<>> THEN 0
  ELSE (IF ParsesAsSmiles(rstrip(Head(strs))) THEN 1 ELSE 0) + CountValid(Tail(strs))

\* lines 245-249: one pass of the loop when input is provided; the lists so
\* far are compared as wholes
PassWithInput(acc, true_row, out_row) ==
  LET outs == Append(acc.out_smiles, join(out_row))
      ins == Append(acc.in_smiles, join(true_row))
  IN [in_smiles |-> ins, out_smiles |-> outs,
      identical |-> IF ins = outs THEN acc.identical + 1 ELSE acc.identical]

\* lines 250-253: one pass of the loop without input: only valid smiles are kept
PassWithoutInput(acc, out_row) ==
  LET out == join(out_row)
  IN IF ParsesAsSmiles(rstrip(out))
     THEN [acc EXCEPT !.out_smiles = Append(acc.out_smiles, out)]
     ELSE acc

RECURSIVE Loop(_, _, _, _)
\* lines 242-253: the loop over the first k rows
Loop(given, true_rows, out_rows, k) ==
  IF k = 0 THEN [in_smiles |-> <<>>, out_smiles |-> <<>>, identical |-> 0]
  ELSE LET acc == Loop(given, true_rows, out_rows, k - 1)
       IN IF given THEN PassWithInput(acc, true_rows[k], out_rows[k])
          ELSE PassWithoutInput(acc, out_rows[k])

\* a fraction num / den, kept exact
Frac(num, den) == [num |-> num, den |-> den]

\* utils.log_smiles_from_indices: df, frac_valid, frac_id, or the exception;
\* identical / N and len(out_smiles) / N raise for N = 0
log_smiles_from_indices(in) ==
  LET N == Len(in.out_idces)
      acc == Loop(in.given, in.true_idces, in.out_idces, N)
  IN IF N = 0
     THEN [called |-> TRUE, exc |-> "ZeroDivisionError", in_smiles |-> <<>>,
           out_smiles |-> <<>>, frac_valid |-> Frac(0, 1), frac_id |-> Frac(0, 1)]
     ELSE IF in.given
     THEN [called |-> TRUE, exc |-> "none", in_smiles |-> acc.in_smiles,
           out_smiles |-> acc.out_smiles,
           frac_valid |-> Frac(CountValid(acc.out_smiles), Len(acc.out_smiles)),
           frac_id |-> Frac(acc.identical, N)]
     ELSE [called |-> TRUE, exc |-> "none", in_smiles |-> <<>>,
           out_smiles |-> acc.out_smiles,
           frac_valid |-> Frac(Len(acc.out_smiles), N),
           frac_id |-> Frac(0, 1)]

NotCalled == [called |-> FALSE, exc |-> "none", in_smiles |-> <<>>,
              out_smiles |-> <<>>, frac_valid |-> Frac(0, 1), frac_id |-> Frac(0, 1)]

InitLogVars ==
  /\ \E n \in 0..MaxN :
       \E o \in Arrays(n) :
         \/ \E t \in Arrays(n) : log_in = [given |-> TRUE, true_idces |-> t, out_idces |-> o]
         \/ log_in = [given |-> FALSE, true_idces |-> <<>>, out_idces |-> o]
  /\ log_out = NotCalled

\* the call
LogSmiles ==
  /\ ~log_out.called
  /\ log_out' = log_smiles_from_indices(log_in)
  /\ UNCHANGED <<log_in, pipe_vars, setup_vars>>

NextLog == LogSmiles

\* ------------------------------------------------------ specifications
IdlePipeline ==
  /\ pc = "idle"
  /\ args = [obj |-> "logp", cutoff |-> 0]
  /\ csv = <<>>
  /\ clf_file = FALSE
  /\ smiles_df = <<>>
  /\ z = <<>>
  /\ files = [f \in FileNames |-> NoFile]
  /\ lists = EmptyLists
  /\ fps = <<>>
  /\ normalized = <<>>
  /\ targets = <<>>
  /\ i = 0
  /\ error = "none"
  /\ null_scored = {}

IdleSetup ==
  /\ fs = {}
  /\ fs_before = {}
  /\ setup_call = NoCall

IdleLog ==
  /\ log_in = [given |-> FALSE, true_idces |-> <<>>, out_idces |-> <<>>]
  /\ log_out = NotCalled

InitP == InitPipeline /\ IdleSetup /\ IdleLog
InitS == IdlePipeline /\ InitSetupVars /\ IdleLog
InitL == IdlePipeline /\ IdleSetup /\ InitLogVars

SpecPipeline == InitP /\ [][NextPipeline]_vars
SpecSetup == InitS /\ [][NextSetup]_vars
SpecLog == InitL /\ [][NextLog]_vars

\* ================================================================ claims
\* vocabulary of the claims about generate_init.py
NormalizingModes == {"logp", "qed", "qsar"}

Latent == "latent_features.txt"

\* the composite objective file of a mode
TargetsFile(obj) ==
  CASE obj = "logp" -> "targets_logp.txt"
    [] obj = "qed" -> "targets_qed.txt"
    [] OTHER -> "targets_qsar.txt"

\* the raw score vectors a mode computes, by their name in lists
RawComponents(obj) ==
  CASE obj = "logp" -> {"logP_values", "SA_scores", "cycle_scores"}
    [] obj = "qed" -> {"qed_values", "SA_scores", "cycle_scores"}
    [] obj = "qsar" -> {"proba"}
    [] OTHER -> {}

Written == {f \in FileNames : files[f].written}
Ended == pc \in {"done", "failed"}
\* the batch: the molecules the run loaded
N == Len(smiles_df)

\* a vector whose entries are all the same (one entry included)
ZeroVariance(xs) == Len(xs) >= 1 /\ \A j, k \in 1..Len(xs) : xs[j] = xs[k]

\* ---- C1 (as stated; refuted) -------------------------------------------
\* C1: a run with objective docking ends with NotImplementedError and, when
\* it has ended, has written no output file at all.
C1_DockingWritesNothing ==
  (Ended /\ args.obj = "docking") =>
    (pc = "failed" /\ error = "NotImplementedError" /\ Written = {})

\* ---- C2 (as stated; refuted) -------------------------------------------
\* C2: in the modes logp, qed and qsar, a run whose batch has a raw score
\* vector with all entries identical is rejected with an error and writes no
\* composite objective file.
C2_ZeroVarianceRejected ==
  (Ended /\ args.obj \in NormalizingModes
     /\ \E c \in RawComponents(args.obj) : ZeroVariance(lists[c]))
  => (error # "none" /\ TargetsFile(args.obj) \notin Written)

\* ---- C5 (as stated; refuted) -------------------------------------------
\* C5: no scoring function (logP, qed, calculateScore, cycle_score, the
\* fingerprint) is ever invoked on a null molecule.
C5_NoScorerOnNull == null_scored = {}

\* ---- C9 (as stated; refuted) -------------------------------------------
\* C9: whatever the objective selector, a run that ends without an error has
\* written the latent feature file and a targets file.
C9_DoneHasTargets ==
  (pc = "done" /\ error = "none") =>
    (Latent \in Written
       /\ \E f \in {"targets_logp.txt", "targets_qed.txt", "targets_qsar.txt"} :
            f \in Written)

\* ---- C7 (as stated; refuted) -------------------------------------------
ApproxZero(x) == x.kind = "fin" /\ Abs(x.v) <= Tol
ApproxOne(x) == x.kind = "fin" /\ Abs(x.v - Scale) <= Tol

\* mean 0 and standard deviation 1, within the tolerance
Standardized(v) == ApproxZero(np_mean(v)) /\ ApproxOne(np_std(v))

\* C7: for a (non-empty) batch of valid molecules every normalised score
\* vector the run computes has mean 0 and standard deviation 1, within the
\* tolerance.
C7_NormalizedMeanZeroStdOne ==
  (pc = "done" /\ args.obj \in NormalizingModes /\ N >= 1) =>
    \A c \in DOMAIN normalized : Standardized(normalized[c])

\* the same, for the vectors whose raw scores are not all identical: this is
\* what the arithmetic does deliver
NormalizedUnlessZeroVariance ==
  (pc = "done" /\ args.obj \in NormalizingModes) =>
    \A c \in DOMAIN normalized :
      ~ZeroVariance(lists[c]) /\ N >= 1 => Standardized(normalized[c])

\* ---- C3 (amended) ------------------------------------------------------
\* the number of molecules the run has scored so far
Scored ==
  CASE args.obj = "logp" -> Len(lists.logP_values)
    [] args.obj = "qed" -> Len(lists.qed_values)
    [] args.obj = "qsar" -> Len(fps)
    [] OTHER -> 0

\* C3 as stated: the number of molecules loaded, embedded and scored by a
\* completed scoring run over a file of R >= 1 rows is min(cutoff, R), for
\* every integer cutoff.
C3_ExactlyMinCutoffRows ==
  (pc = "done" /\ args.obj \in NormalizingModes /\ Len(csv) >= 1) =>
    /\ N = Min(args.cutoff, Len(csv))
    /\ Len(z) = Min(args.cutoff, Len(csv))
    /\ Scored = Min(args.cutoff, Len(csv))

\* C3 amended: a positive cutoff loads the first min(cutoff, R) rows and never
\* more than cutoff; a cutoff of 0 or less loads all R rows; the rows loaded
\* are the rows embedded, a run never scores more molecules than it loaded,
\* and a run that completes a scoring mode has scored every one of them.
C3_CutoffRows ==
  /\ pc # "load" =>
       /\ args.cutoff > 0 => N = Min(args.cutoff, Len(csv)) /\ N <= args.cutoff
       /\ args.cutoff <= 0 => N = Len(csv)
       /\ smiles_df = SubSeq(csv, 1, N)
  /\ pc \notin {"load", "embed"} => Len(z) = N
  /\ Scored <= N
  /\ (pc = "done" /\ args.obj \in NormalizingModes) => Scored = N

\* a run with a cutoff below the number of rows has scored cutoff molecules
C3_Witness ==
  /\ pc = "done" /\ args.obj = "logp"
  /\ args.cutoff = 2 /\ Len(csv) = 3
  /\ N = 2 /\ Len(z) = 2 /\ Scored = 2

\* ---- C4 (amended) ------------------------------------------------------
\* some file other than the composite holds the raw vector c
RawWritten(c) ==
  \E f \in Written \ {TargetsFile(args.obj), Latent} :
    files[f].data = np_array(lists[c])

\* C4 as stated: a run that completes logp, qed or qsar has written the
\* composite objective file and a separate file for every raw component.
C4_EveryRawComponentWritten ==
  (pc = "done" /\ args.obj \in NormalizingModes) =>
    /\ TargetsFile(args.obj) \in Written
    /\ \A c \in RawComponents(args.obj) : RawWritten(c)

\* C4 amended: a completed logp or qed run has written the composite file
\* and one file per raw component (logP or QED values, SA scores, cycle
\* scores); a completed qsar run has written the composite file only, the
\* raw QSAR probabilities are in no file.
C4_OutputFiles ==
  /\ (pc = "done" /\ args.obj = "logp") =>
       /\ Written = {Latent, "targets_logp.txt", "logP_values.txt",
                     "SA_scores.txt", "cycle_scores.txt"}
       /\ files["targets_logp.txt"].data = targets
       /\ files["logP_values.txt"].data = np_array(lists.logP_values)
       /\ files["SA_scores.txt"].data = np_array(lists.SA_scores)
       /\ files["cycle_scores.txt"].data = np_array(lists.cycle_scores)
  /\ (pc = "done" /\ args.obj = "qed") =>
       /\ Written = {Latent, "targets_qed.txt", "qed_values.txt",
                     "SA_scores.txt", "cycle_scores.txt"}
       /\ files["targets_qed.txt"].data = targets
       /\ files["qed_values.txt"].data = np_array(lists.qed_values)
       /\ files["SA_scores.txt"].data = np_array(lists.SA_scores)
       /\ files["cycle_scores.txt"].data = np_array(lists.cycle_scores)
  /\ (pc = "done" /\ args.obj = "qsar") =>
       /\ Written = {Latent, "targets_qsar.txt"}
       /\ files["targets_qsar.txt"].data = targets
       /\ ~RawWritten("proba")

\* a completed qsar run over two molecules with different probabilities
C4_Witness ==
  /\ pc = "done" /\ args.obj = "qsar"
  /\ "targets_qsar.txt" \in Written
  /\ Len(lists.proba) = 2 /\ lists.proba[1] # lists.proba[2]

\* ---- C6 (confirmed) ----------------------------------------------------
\* the raw score of molecule m for component c, as the loops compute it
RawScore(c, m) ==
  CASE c = "logP_values" -> logP(m)
    [] c = "qed_values" -> qed(m)
    [] c = "SA_scores" -> -calculateScore(m)
    [] OTHER -> -cycle_score(m)

\* the file a raw component of the logp and qed modes is written to
RawFile(c) ==
  CASE c = "logP_values" -> "logP_values.txt"
    [] c = "qed_values" -> "qed_values.txt"
    [] c = "SA_scores" -> "SA_scores.txt"
    [] OTHER -> "cycle_scores.txt"

CallLog == Join(LogsDir, setup_call.name)
CallModel == Join(ModelsDir, setup_call.name)

\* the last call was setup(name, permissive=False) with a name
StrictCall == setup_call.called /\ setup_call.name # NoName /\ ~setup_call.permissive

\* C8 as stated: setup(name, permissive=False) either found neither per-name
\* directory, created both and returned their paths, or failed and created
\* neither of them.
C8_AllOrNothing ==
  StrictCall =>
    \/ /\ CallLog \notin fs_before /\ CallModel \notin fs_before
       /\ setup_call.exc = "none"
       /\ CallLog \in fs /\ CallModel \in fs
       /\ setup_call.ret = <<CallLog, CallModel>>
    \/ /\ setup_call.exc # "none"
       /\ CallLog \in fs <=> CallLog \in fs_before
       /\ CallModel \in fs <=> CallModel \in fs_before

\* C8 amended: setup(name, permissive=False) never accepts an existing
\* per-name directory. If neither existed, both are created and their paths
\* returned. If results/logs/<name> existed, the call fails and creates
\* neither. If only results/saved_models/<name> existed, the call fails
\* after it has created results/logs/<name>, which is left behind.
C8_NoOverwrite ==
  StrictCall =>
    /\ (CallLog \notin fs_before /\ CallModel \notin fs_before) =>
         /\ setup_call.exc = "none"
         /\ CallLog \in fs /\ CallModel \in fs
         /\ setup_call.ret = <<CallLog, CallModel>>
    /\ CallLog \in fs_before =>
         /\ setup_call.exc = "FileExistsError"
         /\ CallModel \in fs <=> CallModel \in fs_before
    /\ (CallLog \notin fs_before /\ CallModel \in fs_before) =>
         /\ setup_call.exc = "FileExistsError"
         /\ CallLog \in fs
    /\ fs_before \subseteq fs

\* a failed call that left results/logs/<name> behind
C8_Witness ==
  /\ StrictCall
  /\ CallLog \notin fs_before /\ CallModel \in fs_before
  /\ setup_call.exc = "FileExistsError"
  /\ CallLog \in fs

\* ---- C10 (as stated; refuted) ------------------------------------------
RECURSIVE MatchingRows(_, _, _)
\* the number of rows k <= n whose decoded output equals the decoded input
MatchingRows(true_rows, out_rows, n) ==
  IF n = 0 THEN 0
  ELSE (IF join(out_rows[n]) = join(true_rows[n]) THEN 1 ELSE 0)
       + MatchingRows(true_rows, out_rows, n - 1)

\* C10: with input indices given, frac_id is the number of rows whose decoded
\* output equals the decoded input of the same row, divided by the number of
\* rows.
C10_FracIdCountsMatchingRows ==
  (log_out.called /\ log_in.given /\ log_out.exc = "none") =>
    log_out.frac_id =
      Frac(MatchingRows(log_in.true_idces, log_in.out_idces, Len(log_in.out_idces)),
           Len(log_in.out_idces))

====
